---- MODULE Spec2Model ----
(***************************************************************************)
(* Model of the two leaf artifacts of the tracers repository:              *)
(*                                                                         *)
(*   - probers-codegen/templates/probe_wrapper.c, the template that        *)
(*     renders one C wrapper function per probe.  The rendered text is a   *)
(*     sequence of one-character strings, appended to the output buffer    *)
(*     node by node in template order.                                     *)
(*   - libstapsdt-sys/src/test-libstapsdt.c, the program compiled by the   *)
(*     build script to find out whether libstapsdt is usable.              *)
(***************************************************************************)
EXTENDS Integers, Sequences, FiniteSets, TLC

VARIABLES
    provider,      \* template input: the Provider Descriptor
    probe,         \* template input: the Probe Descriptor
    out,           \* the output buffer of the render in progress
    pc,            \* the template node the render is at
    idx,           \* loop.index of the {% for arg in probe.args %} loop being run
    kept,          \* an earlier finished render, remembered for comparison
    mpc,           \* main(): the line it is about to execute
    providerVar,   \* main(): the local variable `provider`
    held,          \* libstapsdt: the provider handles that are live
    initLog,       \* the calls of providerInit, in order: name given, value returned
    destroyLog,    \* the values providerDestroy was called with, in order
    exitStatus     \* <<>> while the process runs, then <<its exit status>>

vars == <<provider, probe, out, pc, idx, kept,
          mpc, providerVar, held, initLog, destroyLog, exitStatus>>

tplVars == <<provider, probe, out, pc, idx, kept>>
mainVars == <<mpc, providerVar, held, initLog, destroyLog, exitStatus>>

----------------------------------------------------------------------------
(* Bounds and inputs.                                                      *)

\* Every argument list of at most MaxArgs arguments is an input.
MaxArgs == 1

ArgFd == [c_type |-> <<"i","n","t">>, name |-> <<"f","d">>]
ArgBuf == [c_type |-> <<"c","o","n","s","t"," ","c","h","a","r","*">>,
           name |-> <<"b","u","f">>]

Arguments == {ArgFd, ArgBuf}

IntArg(c) == [c_type |-> <<"i","n","t">>, name |-> <<c>>]

\* The argument list of the probe "write": (int fd, const char* buf).
WriteArgs == <<ArgFd, ArgBuf>>

\* One probe with a two-digit argument count (sdt.h goes up to STAP_PROBE12).
TenArgs ==
    <<IntArg("a"), IntArg("b"), IntArg("c"), IntArg("d"), IntArg("e"),
      IntArg("f"), IntArg("g"), IntArg("h"), IntArg("i"), IntArg("j")>>

ArgLists ==
    UNION {[1..n -> Arguments] : n \in 0..MaxArgs} \cup {WriteArgs, TenArgs}

ProbeNames == { <<"e","n","t","e","r">>, <<"w","r","i","t","e">> }

Probes == [name : ProbeNames, args : ArgLists]

Providers ==
    { [name |-> <<"a","c","m","e">>,
       name_with_hash |-> <<"a","c","m","e","_","a","b","1","2">>],
      [name |-> <<"i","o">>,
       name_with_hash |-> <<"i","o","_","7","f">>] }

----------------------------------------------------------------------------
(* The template, node by node.                                             *)

Digit(d) == <<"0","1","2","3","4","5","6","7","8","9">>[d + 1]

\* {{ probe.args.len() }}: a usize rendered by Display, in decimal.
RECURSIVE Decimal(_)
Decimal(n) ==
    IF n < 10 THEN <<Digit(n)>> ELSE Decimal(n \div 10) \o <<Digit(n % 10)>>

\* Variant: the function is named after the plain provider name.
FunctionHeadPlainName(pv, pb) ==
    <<"v","o","i","d"," ">> \o pv.name \o <<"_">> \o pb.name
        \o <<"(","\n"," "," "," "," ">>

\* void {{provider_name_with_hash}}_{{probe.name}}(\n and the indent of line 2
FunctionHeadText(pv, pb) ==
    <<"v","o","i","d"," ">> \o pv.name_with_hash \o <<"_">> \o pb.name
        \o <<"(","\n"," "," "," "," ">>

\* Variant: the separator is emitted after every argument, the last included.
SignatureArgTrailingComma(args, i) ==
    args[i].c_type \o <<" ">> \o args[i].name \o <<",", " ">>

\* {{ arg.c_type }} {{ arg.name }}{% if !loop.last %}, {% endif %}   (line 2)
SignatureArgText(args, i) ==
    args[i].c_type \o <<" ">> \o args[i].name
        \o (IF i # Len(args) THEN <<",", " ">> ELSE <<>>)

\* the end of line 2 and line 3
SignatureEndText == <<"\n", ")", " ", "{", "\n">>

\* Variant: the count is rendered without the > 0 test.
MacroSuffixAlways(n) == Decimal(n)

\* {% if probe.args.len() > 0 %}{{ probe.args.len() }}{% endif %}
MacroSuffix(n) == IF n > 0 THEN Decimal(n) ELSE <<>>

\* line 4
MacroNameText(pb) ==
    <<" "," "," "," ","S","T","A","P","_","P","R","O","B","E">>
        \o MacroSuffix(Len(pb.args)) \o <<"(", "\n">>

\* Variant: line 6 ends in a comma whatever the number of arguments.
MacroHeadCommaAfterProbe(pv, pb) ==
    <<"\t">> \o pv.name_with_hash \o <<",", "\n">>
        \o <<"\t">> \o pb.name \o <<",", "\n">>
        \o <<"\t">>

\* Variant: line 5 passes the plain provider name.
MacroHeadPlainName(pv, pb) ==
    <<"\t">> \o pv.name \o <<",", "\n">>
        \o <<"\t">> \o pb.name \o <<"\n">>
        \o <<"\t">>

\* lines 5 and 6, and the tab that opens line 7
MacroHeadText(pv, pb) ==
    <<"\t">> \o pv.name_with_hash \o <<",", "\n">>
        \o <<"\t">> \o pb.name \o <<"\n">>
        \o <<"\t">>

\* Variant: the macro loop walks the arguments from the last to the first.
MacroArgReversed(args, i) ==
    args[Len(args) + 1 - i].c_type \o <<" ">> \o args[Len(args) + 1 - i].name
        \o (IF i # Len(args) THEN <<",", " ">> ELSE <<>>)

\* {{ arg.c_type }} {{ arg.name }}{% if !loop.last %}, {% endif %}   (line 7)
MacroArgText(args, i) ==
    args[i].c_type \o <<" ">> \o args[i].name
        \o (IF i # Len(args) THEN <<",", " ">> ELSE <<>>)

\* the end of line 7, lines 8 and 9 (the file has no final newline)
MacroEndText == <<"\n", " "," "," "," ", ")", ";", "\n", "}">>

----------------------------------------------------------------------------
(* Rendering.                                                              *)

TplInit ==
    /\ provider \in Providers
    /\ probe \in Probes
    /\ out = <<>>
    /\ pc = "function_head"
    /\ idx = 1
    /\ kept = {}

EmitFunctionHead ==
    /\ pc = "function_head"
    /\ out' = out \o FunctionHeadText(provider, probe)
    /\ idx' = 1
    /\ pc' = "signature_args"
    /\ UNCHANGED <<provider, probe, kept>>

EmitSignatureArg ==
    /\ pc = "signature_args"
    /\ idx <= Len(probe.args)
    /\ out' = out \o SignatureArgText(probe.args, idx)
    /\ idx' = idx + 1
    /\ UNCHANGED <<provider, probe, pc, kept>>

EndSignature ==
    /\ pc = "signature_args"
    /\ idx > Len(probe.args)
    /\ out' = out \o SignatureEndText
    /\ pc' = "macro_name"
    /\ UNCHANGED <<provider, probe, idx, kept>>

EmitMacroName ==
    /\ pc = "macro_name"
    /\ out' = out \o MacroNameText(probe)
    /\ pc' = "macro_head"
    /\ UNCHANGED <<provider, probe, idx, kept>>

EmitMacroHead ==
    /\ pc = "macro_head"
    /\ out' = out \o MacroHeadText(provider, probe)
    /\ idx' = 1
    /\ pc' = "macro_args"
    /\ UNCHANGED <<provider, probe, kept>>

EmitMacroArg ==
    /\ pc = "macro_args"
    /\ idx <= Len(probe.args)
    /\ out' = out \o MacroArgText(probe.args, idx)
    /\ idx' = idx + 1
    /\ UNCHANGED <<provider, probe, pc, kept>>

EndMacro ==
    /\ pc = "macro_args"
    /\ idx > Len(probe.args)
    /\ out' = out \o MacroEndText
    /\ pc' = "done"
    /\ UNCHANGED <<provider, probe, idx, kept>>

\* Variant: the render appends to the text of the previous render.
ReusedBuffer(previous) == previous

\* The buffer a render starts from: a new, empty one.
FreshBuffer(previous) == <<>>

\* The driver renders the template for the next probe definition; the
\* finished text is either remembered (keep) or dropped.
Render(pv, pb, keep) ==
    /\ pc = "done"
    /\ provider' = pv
    /\ probe' = pb
    /\ out' = FreshBuffer(out)
    /\ idx' = 1
    /\ pc' = "function_head"
    /\ kept' = IF keep
               THEN {[provider |-> provider, probe |-> probe, out |-> out]}
               ELSE kept

----------------------------------------------------------------------------
(* The capability probe.                                                   *)

NULL == "NULL"
Handles == {"h1", "h2"}
Uninitialized == "uninitialized"

MainInit ==
    /\ mpc = "line7"
    /\ providerVar = Uninitialized
    /\ held = {}
    /\ initLog = <<>>
    /\ destroyLog = <<>>
    /\ exitStatus = <<>>

\* SDTProvider_t* provider = providerInit("foo");
MainProviderInit(h) ==
    /\ mpc = "line7"
    /\ initLog' = Append(initLog, [name |-> "foo", result |-> h])
    /\ providerVar' = h
    /\ held' = IF h = NULL THEN held ELSE held \cup {h}
    /\ mpc' = "line8"
    /\ UNCHANGED <<destroyLog, exitStatus>>

\* Variant: main returns without releasing the handle.
MainWithoutDestroy ==
    /\ mpc = "line8"
    /\ mpc' = "line9"
    /\ UNCHANGED <<providerVar, held, initLog, destroyLog, exitStatus>>

\* providerDestroy(provider);
MainProviderDestroy ==
    /\ mpc = "line8"
    /\ destroyLog' = Append(destroyLog, providerVar)
    /\ held' = held \ {providerVar}
    /\ mpc' = "line9"
    /\ UNCHANGED <<providerVar, initLog, exitStatus>>

\* Variant: main reports a failed initialization through its exit status.
MainReturnChecked ==
    /\ mpc = "line9"
    /\ exitStatus' = IF providerVar = NULL THEN <<1>> ELSE <<0>>
    /\ mpc' = "exited"
    /\ UNCHANGED <<providerVar, held, initLog, destroyLog>>

\* Reaching the } of main returns 0.
MainReturn ==
    /\ mpc = "line9"
    /\ exitStatus' = <<0>>
    /\ mpc' = "exited"
    /\ UNCHANGED <<providerVar, held, initLog, destroyLog>>

----------------------------------------------------------------------------

Init == TplInit /\ MainInit

Next ==
    \/ EmitFunctionHead /\ UNCHANGED mainVars
    \/ EmitSignatureArg /\ UNCHANGED mainVars
    \/ EndSignature /\ UNCHANGED mainVars
    \/ EmitMacroName /\ UNCHANGED mainVars
    \/ EmitMacroHead /\ UNCHANGED mainVars
    \/ EmitMacroArg /\ UNCHANGED mainVars
    \/ EndMacro /\ UNCHANGED mainVars
    \/ \E pv \in Providers, pb \in Probes, keep \in BOOLEAN :
           Render(pv, pb, keep) /\ UNCHANGED mainVars
    \/ \E h \in Handles \cup {NULL} : MainProviderInit(h) /\ UNCHANGED tplVars
    \/ MainProviderDestroy /\ UNCHANGED tplVars
    \/ MainReturn /\ UNCHANGED tplVars

Spec == Init /\ [][Next]_vars

----------------------------------------------------------------------------
(* Reading a rendered text back: the pieces of C source the properties     *)
(* below talk about, found in the text by position and punctuation.        *)

IsSpace(c) == c \in {" ", "\n", "\t"}

PositionsOf(t, c) == {i \in 1..Len(t) : t[i] = c}

\* The position of the n-th occurrence of c in t, 0 when there is none.
NthPos(t, c, n) ==
    LET P == PositionsOf(t, c)
    IN IF Cardinality(P) < n THEN 0
       ELSE CHOOSE i \in P : Cardinality({j \in P : j < i}) = n - 1

Inked(t) == {i \in 1..Len(t) : ~IsSpace(t[i])}

SetMin(S) == CHOOSE x \in S : \A y \in S : x <= y
SetMax(S) == CHOOSE x \in S : \A y \in S : x >= y

TrimLeft(t) == IF Inked(t) = {} THEN <<>> ELSE SubSeq(t, SetMin(Inked(t)), Len(t))

Trim(t) ==
    IF Inked(t) = {} THEN <<>> ELSE SubSeq(t, SetMin(Inked(t)), SetMax(Inked(t)))

\* The pieces of t between the occurrences of c.
RECURSIVE Split(_, _)
Split(t, c) ==
    IF PositionsOf(t, c) = {} THEN <<t>>
    ELSE LET p == SetMin(PositionsOf(t, c))
         IN <<SubSeq(t, 1, p - 1)>> \o Split(SubSeq(t, p + 1, Len(t)), c)

\* The entries of a comma-separated list, surrounding white space removed;
\* a list of white space only has no entry.
Items(t) ==
    IF Trim(t) = <<>> THEN <<>>
    ELSE LET parts == Split(t, ",")
         IN [i \in 1..Len(parts) |-> Trim(parts[i])]

\* The longest prefix of t free of white space and commas.
FirstToken(t) ==
    LET stops == {i \in 1..Len(t) : IsSpace(t[i]) \/ t[i] = ","}
    IN IF stops = {} THEN t ELSE SubSeq(t, 1, SetMin(stops) - 1)

HasPrefix(t, p) == Len(t) >= Len(p) /\ SubSeq(t, 1, Len(p)) = p

VoidKeyword == <<"v","o","i","d"," ">>
StapProbe == <<"S","T","A","P","_","P","R","O","B","E">>

\* What stands between the return type and the first parenthesis.
FunctionName(t) == SubSeq(t, Len(VoidKeyword) + 1, NthPos(t, "(", 1) - 1)

\* What stands between the first pair of parentheses.
ParamText(t) == SubSeq(t, NthPos(t, "(", 1) + 1, NthPos(t, ")", 1) - 1)

\* What stands between the opening brace and the second parenthesis.
MacroName(t) == Trim(SubSeq(t, NthPos(t, "{", 1) + 1, NthPos(t, "(", 2) - 1))

\* What stands between the second pair of parentheses.
MacroArgsText(t) == SubSeq(t, NthPos(t, "(", 2) + 1, NthPos(t, ")", 2) - 1)

\* The provider token: the first entry of the macro's argument list.
MacroProviderToken(t) == FirstToken(TrimLeft(MacroArgsText(t)))

\* What follows the first separator of the macro's argument list.
AfterProvider(t) ==
    LET m == MacroArgsText(t)
    IN TrimLeft(SubSeq(m, NthPos(m, ",", 1) + 1, Len(m)))

\* The probe token: the first token after the first separator.
MacroProbeToken(t) == FirstToken(AfterProvider(t))

\* The probe arguments passed to the macro: the entries that follow the
\* probe token, whether or not a separator stands between it and them.
MacroProbeArgs(t) ==
    LET rest == TrimLeft(SubSeq(AfterProvider(t), Len(MacroProbeToken(t)) + 1,
                                Len(AfterProvider(t))))
    IN Items(IF HasPrefix(rest, <<",">>) THEN SubSeq(rest, 2, Len(rest)) ELSE rest)

\* An argument as C source: "c_type name".
ArgDecl(a) == a.c_type \o <<" ">> \o a.name

ArgDecls(args) == [i \in 1..Len(args) |-> ArgDecl(args[i])]

\* The entries of list written with ", " between consecutive ones.
RECURSIVE CommaJoin(_)
CommaJoin(list) ==
    IF list = <<>> THEN <<>>
    ELSE IF Len(list) = 1 THEN list[1]
    ELSE list[1] \o <<",", " ">> \o CommaJoin(Tail(list))

DigitChars == <<"0","1","2","3","4","5","6","7","8","9">>

IsDigit(c) == \E d \in 1..10 : DigitChars[d] = c

DigitValue(c) == (CHOOSE d \in 1..10 : DigitChars[d] = c) - 1

\* The number a string of digits denotes.
RECURSIVE DecimalValue(_)
DecimalValue(t) ==
    IF t = <<>> THEN 0
    ELSE 10 * DecimalValue(SubSeq(t, 1, Len(t) - 1)) + DigitValue(t[Len(t)])

\* t is the decimal numeral of n: digits only, no leading zero, value n.
IsDecimalOf(t, n) ==
    /\ t # <<>>
    /\ \A i \in 1..Len(t) : IsDigit(t[i])
    /\ t[1] # "0"
    /\ DecimalValue(t) = n

Rendered == pc = "done"
NArgs == Len(probe.args)

----------------------------------------------------------------------------
(* Properties.                                                             *)

\* C1: with N > 0 arguments the macro is invoked with one well-formed
\* comma-separated list: the provider name, the probe name, then every
\* argument, a separator standing between the probe name and the first
\* argument as between every two consecutive arguments.
C1_MacroArgumentListWellFormed ==
    (Rendered /\ NArgs > 0) =>
        Items(MacroArgsText(out))
            = <<provider.name_with_hash, probe.name>> \o ArgDecls(probe.args)

\* C2: the macro invoked is STAP_PROBE when there is no argument, and
\* STAP_PROBE followed by the decimal numeral of N when there are N > 0.
C2_MacroNameSuffix ==
    Rendered =>
        LET m == MacroName(out)
        IN /\ HasPrefix(m, StapProbe)
           /\ IF NArgs = 0
              THEN m = StapProbe
              ELSE IsDecimalOf(SubSeq(m, Len(StapProbe) + 1, Len(m)), NArgs)

C2_Witness == Rendered /\ NArgs >= 10

\* C3: the parameter list of the signature is the N "c_type name" pairs with
\* ", " between consecutive ones, nothing before the first nor after the
\* last; with N = 0 the parentheses hold white space only.
C3_SignatureParameterList ==
    Rendered =>
        /\ Trim(ParamText(out)) = CommaJoin(ArgDecls(probe.args))
        /\ Len(Items(ParamText(out))) = NArgs

C3_Witness == Rendered /\ NArgs = 2

\* C4: the i-th argument of the signature and the i-th argument passed to
\* the macro are both the i-th element of probe.args, and each list has
\* exactly N entries.
C4_ArgumentOrder ==
    Rendered =>
        /\ Len(Items(ParamText(out))) = NArgs
        /\ Len(MacroProbeArgs(out)) = NArgs
        /\ \A i \in 1..NArgs :
              /\ Items(ParamText(out))[i] = ArgDecl(probe.args[i])
              /\ MacroProbeArgs(out)[i] = ArgDecl(probe.args[i])
              /\ MacroProbeArgs(out)[i] = Items(ParamText(out))[i]

C4_Witness == Rendered /\ NArgs = 2 /\ probe.args[1] # probe.args[2]

\* C5: with no argument the macro is passed exactly the provider name and
\* the probe name, one separator between them and none after the probe name.
C5_EmptyArgumentList ==
    (Rendered /\ NArgs = 0) =>
        /\ Items(MacroArgsText(out)) = <<provider.name_with_hash, probe.name>>
        /\ Cardinality(PositionsOf(MacroArgsText(out), ",")) = 1

C5_Witness == Rendered /\ NArgs = 0

\* C6: the text defines one function, named name_with_hash, an underscore,
\* the probe name; the plain provider name is not what prefixes it.
C6_FunctionName ==
    Rendered =>
        /\ HasPrefix(out, VoidKeyword)
        /\ FunctionName(out) = provider.name_with_hash \o <<"_">> \o probe.name
        /\ FunctionName(out) # provider.name \o <<"_">> \o probe.name
        /\ Cardinality(PositionsOf(out, "{")) = 1
        /\ Cardinality(PositionsOf(out, "}")) = 1
        /\ out[Len(out)] = "}"

C6_Witness == Rendered /\ provider.name # provider.name_with_hash

C8_InitThenReleaseOnce ==
    /\ Len(initLog) <= 1
    /\ Len(destroyLog) <= 1
    /\ \A i \in 1..Len(initLog) : initLog[i].name = "foo"
    /\ Len(destroyLog) = 1 =>
           (Len(initLog) = 1 /\ destroyLog[1] = initLog[1].result)
    /\ mpc = "exited" =>
           (Len(initLog) = 1 /\ Len(destroyLog) = 1 /\ held = {})

C8_Witness ==
    mpc = "exited" /\ Len(initLog) = 1 /\ initLog[1].result \in Handles

\* C9: whatever providerInit returned, a handle or the failure value, the
\* program releases that value once and exits with status 0; it never exits
\* with another status.
C9_NoRuntimeErrorHandling ==
    /\ exitStatus \in {<<>>, <<0>>}
    /\ mpc = "exited" =>
           (exitStatus = <<0>> /\ Len(initLog) = 1
              /\ destroyLog = <<initLog[1].result>>)

C9_Witness ==
    mpc = "exited" /\ Len(initLog) = 1 /\ initLog[1].result = NULL

\* C10: the first argument of the macro is the provider prefix of the
\* function name, name_with_hash and not the plain name, and the second is
\* the probe part of the function name.
C10_MacroTokensMatchFunctionName ==
    Rendered =>
        /\ FunctionName(out)
              = MacroProviderToken(out) \o <<"_">> \o MacroProbeToken(out)
        /\ MacroProviderToken(out) = provider.name_with_hash
        /\ MacroProviderToken(out) # provider.name
        /\ MacroProbeToken(out) = probe.name

C10_Witness ==
    Rendered /\ NArgs > 0 /\ provider.name # provider.name_with_hash

====
